---- MODULE Spec2Model ----
(***************************************************************************)
(* Model of firmware/app_layer_v1/protocol.c: the incoming message         *)
(* decoder (AppProtocolHandleIncoming), the dispatcher (MessageDone), the  *)
(* outgoing queue producers (AppProtocolSendMessage,                       *)
(* AppProtocolSendMessageWithVarArg, Echo) and the transmit pump           *)
(* (AppProtocolTasks).                                                     *)
(*                                                                         *)
(* protocol.h, byte_queue.h, board.h and the hardware drivers are not part *)
(* of the sources at hand.  What the model needs of them (the layout of    *)
(* the argument structs, the FIFO behaviour of the byte queue, the channel *)
(* and the pin/pwm/uart counts) is taken from the written specification    *)
(* and kept in definitions of its own, apart from the definitions that     *)
(* model protocol.c.                                                       *)
(***************************************************************************)
EXTENDS Integers, Sequences, FiniteSets, TLC

(***************************************************************************)
(* Bounds of the model.                                                    *)
(***************************************************************************)
\* bytes the host puts on the wire, back to back, in SpecDecode
MaxStream == 7
\* bytes the host puts on the wire, message by message, in SpecDispatch
MaxDispatch == 7
\* messages dispatched before the host stops sending, in SpecDispatch
MaxDispatched == 2
\* bytes the host puts on the wire while the outgoing side runs too (Spec)
MaxCore == 3
\* bytes the host puts on the wire in SpecLive
MaxLive == 2
\* values 0..MaxOob an out-of-range read of incoming_arg_size may return
MaxOob == 1
\* messages other producers (event reports, var-arg sends) enqueue
MaxSends == 1

(***************************************************************************)
(* Message types: the index order of the size tables.                      *)
(***************************************************************************)
HARD_RESET == 0
SOFT_RESET == 1
SET_PIN_DIGITAL_OUT == 2
SET_DIGITAL_OUT_LEVEL == 3
SET_PIN_DIGITAL_IN == 4
SET_CHANGE_NOTIFY == 5
REGISTER_PERIODIC_DIGITAL_SAMPLING == 6
RESERVED == 7
SET_PIN_PWM == 8
SET_PWM_DUTY_CYCLE == 9
SET_PWM_PERIOD == 10
SET_PIN_ANALOG_IN == 11
UART_DATA == 12
UART_CONFIG == 13
SET_PIN_UART_RX == 14
SET_PIN_UART_TX == 15
MESSAGE_TYPE_LIMIT == 16
\* outgoing-only meanings of the same indices
ESTABLISH_CONNECTION == 0
REPORT_DIGITAL_IN_STATUS == 3
UART_REPORT_TX_STATUS == 10

FIRMWARE_ID == 1
\* DEFINE_STATIC_BYTE_QUEUE(tx_queue, 1024)
TxCapacity == 1024

\* protocol.h / board.h values
IOIO_MAGIC == 1330204489
NUM_PINS == 49
NUM_PWMS == 9
NUM_UARTS == 4
\* bytes of the variable-argument area behind the largest fixed block
VarArgBufSize == 256
\* the UART driver's answer to a TX status query
UartTxRemaining == 0
\* the digital driver's answer to a level query
DigitalInLevel == 1

Byte == 0..255

(***************************************************************************)
(* Layout of the argument structs: field |-> <<offset, width>> in bytes,   *)
(* one field per byte, multi-byte fields little-endian.                    *)
(***************************************************************************)
Layout ==
  [ HARD_RESET_ARGS |-> [magic |-> <<0, 4>>],
    SET_PIN_DIGITAL_OUT_ARGS |->
      [pin |-> <<0, 1>>, value |-> <<1, 1>>, open_drain |-> <<2, 1>>],
    SET_DIGITAL_OUT_LEVEL_ARGS |-> [pin |-> <<0, 1>>, value |-> <<1, 1>>],
    SET_PIN_DIGITAL_IN_ARGS |-> [pin |-> <<0, 1>>, pull |-> <<1, 1>>],
    SET_CHANGE_NOTIFY_ARGS |-> [pin |-> <<0, 1>>, cn |-> <<1, 1>>],
    SET_PIN_PWM_ARGS |-> [pin |-> <<0, 1>>, pwm_num |-> <<1, 1>>],
    SET_PWM_DUTY_CYCLE_ARGS |->
      [pwm_num |-> <<0, 1>>, dc |-> <<1, 2>>, fraction |-> <<3, 1>>],
    SET_PWM_PERIOD_ARGS |->
      [pwm_num |-> <<0, 1>>, period |-> <<1, 2>>, scale256 |-> <<3, 1>>],
    SET_PIN_ANALOG_IN_ARGS |-> [pin |-> <<0, 1>>],
    UART_DATA_ARGS |-> [uart_num |-> <<0, 1>>, size |-> <<1, 1>>],
    UART_CONFIG_ARGS |->
      [uart_num |-> <<0, 1>>, rate |-> <<1, 2>>, speed4x |-> <<3, 1>>,
       two_stop_bits |-> <<4, 1>>, parity |-> <<5, 1>>],
    SET_PIN_UART_RX_ARGS |->
      [pin |-> <<0, 1>>, uart_num |-> <<1, 1>>, enable |-> <<2, 1>>],
    SET_PIN_UART_TX_ARGS |->
      [pin |-> <<0, 1>>, uart_num |-> <<1, 1>>, enable |-> <<2, 1>>] ]

\* sizeof of every argument struct of protocol.h
SizeOf ==
  [ HARD_RESET_ARGS |-> 4,
    ESTABLISH_CONNECTION_ARGS |-> 13,
    SOFT_RESET_ARGS |-> 0,
    SET_PIN_DIGITAL_OUT_ARGS |-> 3,
    SET_DIGITAL_OUT_LEVEL_ARGS |-> 2,
    REPORT_DIGITAL_IN_STATUS_ARGS |-> 2,
    SET_PIN_DIGITAL_IN_ARGS |-> 2,
    SET_CHANGE_NOTIFY_ARGS |-> 2,
    REGISTER_PERIODIC_DIGITAL_SAMPLING_ARGS |-> 2,
    RESERVED_ARGS |-> 0,
    SET_PIN_PWM_ARGS |-> 2,
    REPORT_ANALOG_IN_FORMAT_ARGS |-> 1,
    SET_PWM_DUTY_CYCLE_ARGS |-> 4,
    REPORT_ANALOG_IN_STATUS_ARGS |-> 1,
    SET_PWM_PERIOD_ARGS |-> 4,
    UART_REPORT_TX_STATUS |-> 3,
    SET_PIN_ANALOG_IN_ARGS |-> 1,
    UART_DATA_ARGS |-> 2,
    UART_CONFIG_ARGS |-> 6,
    SET_PIN_UART_RX_ARGS |-> 3,
    SET_PIN_UART_TX_ARGS |-> 3 ]

\* sizeof(INCOMING_MESSAGE): type, the largest fixed block, the var-arg area
RxMsgSize == 1 + 6 + VarArgBufSize

RECURSIVE FromLE(_)
FromLE(bytes) ==
  IF bytes = <<>> THEN 0 ELSE Head(bytes) + 256 * FromLE(Tail(bytes))

RECURSIVE ToLE(_, _)
ToLE(v, n) == IF n = 0 THEN <<>> ELSE <<v % 256>> \o ToLE(v \div 256, n - 1)

\* A buffer is kept up to the last byte ever written; rx_msg is static, so
\* the bytes behind that are still zero
RxByte(buf, i) == IF i <= Len(buf) THEN buf[i] ELSE 0

RxBytes(buf, from, to) == [i \in 1..(to - from + 1) |-> RxByte(buf, from + i - 1)]

\* msg->args.<struct>.<field> of a message laid out in bytes (type first)
FieldAt(msg, f) == FromLE(RxBytes(msg, 2 + f[1], 1 + f[1] + f[2]))

Field(msg, struct, field) == FieldAt(msg, Layout[struct][field])

\* the bytes of a field; two DWORDs are equal when their bytes are
FieldBytesAt(msg, f) == RxBytes(msg, 2 + f[1], 1 + f[1] + f[2])

FieldBytes(msg, struct, field) == FieldBytesAt(msg, Layout[struct][field])

\* args.uart_data.data: the bytes behind the fixed block of UART_DATA
UartDataOffset == 1 + SizeOf.UART_DATA_ARGS

(***************************************************************************)
(* The size tables, indexed by message type + 1.                           *)
(***************************************************************************)
incoming_arg_size ==
  << SizeOf.HARD_RESET_ARGS,
     SizeOf.SOFT_RESET_ARGS,
     SizeOf.SET_PIN_DIGITAL_OUT_ARGS,
     SizeOf.SET_DIGITAL_OUT_LEVEL_ARGS,
     SizeOf.SET_PIN_DIGITAL_IN_ARGS,
     SizeOf.SET_CHANGE_NOTIFY_ARGS,
     SizeOf.REGISTER_PERIODIC_DIGITAL_SAMPLING_ARGS,
     SizeOf.RESERVED_ARGS,
     SizeOf.SET_PIN_PWM_ARGS,
     SizeOf.SET_PWM_DUTY_CYCLE_ARGS,
     SizeOf.SET_PWM_PERIOD_ARGS,
     SizeOf.SET_PIN_ANALOG_IN_ARGS,
     SizeOf.UART_DATA_ARGS,
     SizeOf.UART_CONFIG_ARGS,
     SizeOf.SET_PIN_UART_RX_ARGS,
     SizeOf.SET_PIN_UART_TX_ARGS >>

\* outgoing_arg_size with the UART_CONFIG slot holding the size of another
\* struct
outgoing_arg_size_Skewed ==
  << SizeOf.ESTABLISH_CONNECTION_ARGS,
     SizeOf.SOFT_RESET_ARGS,
     SizeOf.SET_PIN_DIGITAL_OUT_ARGS,
     SizeOf.REPORT_DIGITAL_IN_STATUS_ARGS,
     SizeOf.SET_PIN_DIGITAL_IN_ARGS,
     SizeOf.SET_CHANGE_NOTIFY_ARGS,
     SizeOf.REGISTER_PERIODIC_DIGITAL_SAMPLING_ARGS,
     SizeOf.RESERVED_ARGS,
     SizeOf.REPORT_ANALOG_IN_FORMAT_ARGS,
     SizeOf.REPORT_ANALOG_IN_STATUS_ARGS,
     SizeOf.UART_REPORT_TX_STATUS,
     SizeOf.SET_PIN_ANALOG_IN_ARGS,
     SizeOf.UART_DATA_ARGS,
     SizeOf.UART_REPORT_TX_STATUS,
     SizeOf.SET_PIN_UART_RX_ARGS,
     SizeOf.SET_PIN_UART_TX_ARGS >>

outgoing_arg_size ==
  << SizeOf.ESTABLISH_CONNECTION_ARGS,
     SizeOf.SOFT_RESET_ARGS,
     SizeOf.SET_PIN_DIGITAL_OUT_ARGS,
     SizeOf.REPORT_DIGITAL_IN_STATUS_ARGS,
     SizeOf.SET_PIN_DIGITAL_IN_ARGS,
     SizeOf.SET_CHANGE_NOTIFY_ARGS,
     SizeOf.REGISTER_PERIODIC_DIGITAL_SAMPLING_ARGS,
     SizeOf.RESERVED_ARGS,
     SizeOf.REPORT_ANALOG_IN_FORMAT_ARGS,
     SizeOf.REPORT_ANALOG_IN_STATUS_ARGS,
     SizeOf.UART_REPORT_TX_STATUS,
     SizeOf.SET_PIN_ANALOG_IN_ARGS,
     SizeOf.UART_DATA_ARGS,
     SizeOf.UART_CONFIG_ARGS,
     SizeOf.SET_PIN_UART_RX_ARGS,
     SizeOf.SET_PIN_UART_TX_ARGS >>

\* static inline BYTE OutgoingMessageLength(msg)
OutgoingMessageLength(msg) == (1 + outgoing_arg_size[msg[1] + 1]) % 256

\* static inline BYTE IncomingVarArgSize(msg): the int sum is returned as BYTE
IncomingVarArgSize(msg) ==
  IF msg[1] = UART_DATA
    THEN (Field(msg, "UART_DATA_ARGS", "size") + 1) % 256
    ELSE 0

(***************************************************************************)
(* The byte queue, as a FIFO of bytes (reads and writes below capacity).   *)
(***************************************************************************)
ByteQueuePushBuffer(q, buf, len) == q \o RxBytes(buf, 1, len)

ByteQueuePull(q, n) == SubSeq(q, n + 1, Len(q))

\* the contiguous span at the head of the queue
ByteQueuePeek(q) == q

ByteQueueClear(q) == <<>>

\* void AppProtocolSendMessage(msg): one push of 1 + outgoing_arg_size bytes
AppProtocolSendMessage(q, msg) ==
  ByteQueuePushBuffer(q, msg, OutgoingMessageLength(msg))

\* static void Echo(): rx_msg sent as an OUTGOING_MESSAGE
Echo(q, msg) == AppProtocolSendMessage(q, msg)

(***************************************************************************)
(* Hardware collaborators that enqueue a report.                           *)
(***************************************************************************)
ReportDigitalInStatus(q, pin) ==
  AppProtocolSendMessage(q, <<REPORT_DIGITAL_IN_STATUS, pin, DigitalInLevel>>)

UARTReportTxStatus(q, uart) ==
  AppProtocolSendMessage(
    q, <<UART_REPORT_TX_STATUS, uart>> \o ToLE(UartTxRemaining, 2))

(***************************************************************************)
(* MessageDone: the dispatcher.  A case yields                             *)
(*   ok    - the BOOL it returns,                                          *)
(*   calls - the hardware calls it made, in order,                         *)
(*   q     - tx_queue after its Echo and report calls.                     *)
(* CHECK(cond) returns FALSE at once when cond fails.                      *)
(***************************************************************************)
CheckFailed(q) == [ok |-> FALSE, calls |-> <<>>, q |-> q]

Done_HARD_RESET(m, q) ==
  IF ~(FieldBytes(m, "HARD_RESET_ARGS", "magic") = ToLE(IOIO_MAGIC, 4))
    THEN CheckFailed(q)
  ELSE [ok |-> TRUE, calls |-> << <<"HardReset">> >>, q |-> q]

Done_SOFT_RESET(m, q) ==
  [ok |-> TRUE, calls |-> << <<"SoftReset">> >>, q |-> Echo(q, m)]

Done_SET_PIN_DIGITAL_OUT(m, q) ==
  LET a == "SET_PIN_DIGITAL_OUT_ARGS" IN
  IF ~(Field(m, a, "pin") < NUM_PINS) THEN CheckFailed(q)
  ELSE [ok |-> TRUE,
        calls |-> << <<"SetPinDigitalOut", Field(m, a, "pin"),
                       Field(m, a, "value"), Field(m, a, "open_drain")>> >>,
        q |-> Echo(q, m)]

\* Done_SET_DIGITAL_OUT_LEVEL with an Echo() behind the hardware call
Done_SET_DIGITAL_OUT_LEVEL_Echoed(m, q) ==
  LET a == "SET_DIGITAL_OUT_LEVEL_ARGS" IN
  IF ~(Field(m, a, "pin") < NUM_PINS) THEN CheckFailed(q)
  ELSE [ok |-> TRUE,
        calls |-> << <<"SetDigitalOutLevel", Field(m, a, "pin"),
                       Field(m, a, "value")>> >>,
        q |-> Echo(q, m)]

Done_SET_DIGITAL_OUT_LEVEL(m, q) ==
  LET a == "SET_DIGITAL_OUT_LEVEL_ARGS" IN
  IF ~(Field(m, a, "pin") < NUM_PINS) THEN CheckFailed(q)
  ELSE [ok |-> TRUE,
        calls |-> << <<"SetDigitalOutLevel", Field(m, a, "pin"),
                       Field(m, a, "value")>> >>,
        q |-> q]

\* Done_SET_PIN_DIGITAL_IN with the pull check behind the hardware call
Done_SET_PIN_DIGITAL_IN_CallFirst(m, q) ==
  LET a == "SET_PIN_DIGITAL_IN_ARGS" IN
  IF ~(Field(m, a, "pin") < NUM_PINS) THEN CheckFailed(q)
  ELSE IF ~(Field(m, a, "pull") < 3)
    THEN [ok |-> FALSE,
          calls |-> << <<"SetPinDigitalIn", Field(m, a, "pin"),
                         Field(m, a, "pull")>> >>,
          q |-> q]
  ELSE [ok |-> TRUE,
        calls |-> << <<"SetPinDigitalIn", Field(m, a, "pin"),
                       Field(m, a, "pull")>> >>,
        q |-> Echo(q, m)]

Done_SET_PIN_DIGITAL_IN(m, q) ==
  LET a == "SET_PIN_DIGITAL_IN_ARGS" IN
  IF ~(Field(m, a, "pin") < NUM_PINS) THEN CheckFailed(q)
  ELSE IF ~(Field(m, a, "pull") < 3) THEN CheckFailed(q)
  ELSE [ok |-> TRUE,
        calls |-> << <<"SetPinDigitalIn", Field(m, a, "pin"),
                       Field(m, a, "pull")>> >>,
        q |-> Echo(q, m)]

\* Done_SET_CHANGE_NOTIFY with the status report ahead of the echo
Done_SET_CHANGE_NOTIFY_ReportFirst(m, q) ==
  LET a == "SET_CHANGE_NOTIFY_ARGS" IN
  IF ~(Field(m, a, "pin") < NUM_PINS) THEN CheckFailed(q)
  ELSE [ok |-> TRUE,
        calls |-> << <<"SetChangeNotify", Field(m, a, "pin"),
                       Field(m, a, "cn")>> >>,
        q |-> IF Field(m, a, "cn") # 0
                THEN Echo(ReportDigitalInStatus(q, Field(m, a, "pin")), m)
                ELSE Echo(q, m)]

\* Done_SET_CHANGE_NOTIFY without "if (cn)": the status is reported always
Done_SET_CHANGE_NOTIFY_AlwaysReport(m, q) ==
  LET a == "SET_CHANGE_NOTIFY_ARGS" IN
  IF ~(Field(m, a, "pin") < NUM_PINS) THEN CheckFailed(q)
  ELSE [ok |-> TRUE,
        calls |-> << <<"SetChangeNotify", Field(m, a, "pin"),
                       Field(m, a, "cn")>> >>,
        q |-> ReportDigitalInStatus(Echo(q, m), Field(m, a, "pin"))]

Done_SET_CHANGE_NOTIFY(m, q) ==
  LET a == "SET_CHANGE_NOTIFY_ARGS" IN
  IF ~(Field(m, a, "pin") < NUM_PINS) THEN CheckFailed(q)
  ELSE LET q1 == Echo(q, m) IN
       [ok |-> TRUE,
        calls |-> << <<"SetChangeNotify", Field(m, a, "pin"),
                       Field(m, a, "cn")>> >>,
        q |-> IF Field(m, a, "cn") # 0
                THEN ReportDigitalInStatus(q1, Field(m, a, "pin"))
                ELSE q1]

Done_SET_PIN_PWM(m, q) ==
  LET a == "SET_PIN_PWM_ARGS" IN
  IF ~(Field(m, a, "pin") < NUM_PINS) THEN CheckFailed(q)
  ELSE IF ~(Field(m, a, "pwm_num") < NUM_PWMS \/ Field(m, a, "pwm_num") = 15)
    THEN CheckFailed(q)
  ELSE [ok |-> TRUE,
        calls |-> << <<"SetPinPwm", Field(m, a, "pin"),
                       Field(m, a, "pwm_num")>> >>,
        q |-> q]

Done_SET_PWM_DUTY_CYCLE(m, q) ==
  LET a == "SET_PWM_DUTY_CYCLE_ARGS" IN
  IF ~(Field(m, a, "pwm_num") < NUM_PWMS) THEN CheckFailed(q)
  ELSE [ok |-> TRUE,
        calls |-> << <<"SetPwmDutyCycle", Field(m, a, "pwm_num"),
                       Field(m, a, "dc"), Field(m, a, "fraction")>> >>,
        q |-> q]

Done_SET_PWM_PERIOD(m, q) ==
  LET a == "SET_PWM_PERIOD_ARGS" IN
  IF ~(Field(m, a, "pwm_num") < NUM_PWMS) THEN CheckFailed(q)
  ELSE [ok |-> TRUE,
        calls |-> << <<"SetPwmPeriod", Field(m, a, "pwm_num"),
                       Field(m, a, "period"), Field(m, a, "scale256")>> >>,
        q |-> q]

Done_SET_PIN_ANALOG_IN(m, q) ==
  LET a == "SET_PIN_ANALOG_IN_ARGS" IN
  IF ~(Field(m, a, "pin") < NUM_PINS) THEN CheckFailed(q)
  ELSE [ok |-> TRUE,
        calls |-> << <<"SetPinAnalogIn", Field(m, a, "pin")>> >>,
        q |-> Echo(q, m)]

\* UARTTransmit(uart_num, data, size + 1): size + 1 is an int, not a BYTE
Done_UART_DATA(m, q) ==
  LET a == "UART_DATA_ARGS" IN
  IF ~(Field(m, a, "uart_num") < NUM_UARTS) THEN CheckFailed(q)
  ELSE [ok |-> TRUE,
        calls |-> << <<"UARTTransmit", Field(m, a, "uart_num"),
                       RxBytes(m, UartDataOffset + 1,
                               UartDataOffset + Field(m, a, "size") + 1),
                       Field(m, a, "size") + 1>> >>,
        q |-> q]

Done_UART_CONFIG(m, q) ==
  LET a == "UART_CONFIG_ARGS" IN
  IF ~(Field(m, a, "uart_num") < NUM_UARTS) THEN CheckFailed(q)
  ELSE IF ~(Field(m, a, "parity") < 3) THEN CheckFailed(q)
  ELSE [ok |-> TRUE,
        calls |-> << <<"UARTConfig", Field(m, a, "uart_num"),
                       Field(m, a, "rate"), Field(m, a, "speed4x"),
                       Field(m, a, "two_stop_bits"), Field(m, a, "parity")>> >>,
        q |-> UARTReportTxStatus(Echo(q, m), Field(m, a, "uart_num"))]

Done_SET_PIN_UART_RX(m, q) ==
  LET a == "SET_PIN_UART_RX_ARGS" IN
  IF ~(Field(m, a, "pin") < NUM_PINS) THEN CheckFailed(q)
  ELSE IF ~(Field(m, a, "uart_num") < NUM_UARTS) THEN CheckFailed(q)
  ELSE [ok |-> TRUE,
        calls |-> << <<"SetPinUartRx", Field(m, a, "pin"),
                       Field(m, a, "uart_num"), Field(m, a, "enable")>> >>,
        q |-> Echo(q, m)]

Done_SET_PIN_UART_TX(m, q) ==
  LET a == "SET_PIN_UART_TX_ARGS" IN
  IF ~(Field(m, a, "pin") < NUM_PINS) THEN CheckFailed(q)
  ELSE IF ~(Field(m, a, "uart_num") < NUM_UARTS) THEN CheckFailed(q)
  ELSE [ok |-> TRUE,
        calls |-> << <<"SetPinUartTx", Field(m, a, "pin"),
                       Field(m, a, "uart_num"), Field(m, a, "enable")>> >>,
        q |-> Echo(q, m)]

\* Done_default taking a type without handler for handled
Done_default_Ignored(m, q) == [ok |-> TRUE, calls |-> <<>>, q |-> q]

\* default: return FALSE;
Done_default(m, q) == [ok |-> FALSE, calls |-> <<>>, q |-> q]

\* static BOOL MessageDone(): switch (rx_msg.type), default: return FALSE
MessageDone(m, q) ==
  CASE m[1] = HARD_RESET -> Done_HARD_RESET(m, q)
    [] m[1] = SOFT_RESET -> Done_SOFT_RESET(m, q)
    [] m[1] = SET_PIN_DIGITAL_OUT -> Done_SET_PIN_DIGITAL_OUT(m, q)
    [] m[1] = SET_DIGITAL_OUT_LEVEL -> Done_SET_DIGITAL_OUT_LEVEL(m, q)
    [] m[1] = SET_PIN_DIGITAL_IN -> Done_SET_PIN_DIGITAL_IN(m, q)
    [] m[1] = SET_CHANGE_NOTIFY -> Done_SET_CHANGE_NOTIFY(m, q)
    [] m[1] = SET_PIN_PWM -> Done_SET_PIN_PWM(m, q)
    [] m[1] = SET_PWM_DUTY_CYCLE -> Done_SET_PWM_DUTY_CYCLE(m, q)
    [] m[1] = SET_PWM_PERIOD -> Done_SET_PWM_PERIOD(m, q)
    [] m[1] = SET_PIN_ANALOG_IN -> Done_SET_PIN_ANALOG_IN(m, q)
    [] m[1] = UART_DATA -> Done_UART_DATA(m, q)
    [] m[1] = UART_CONFIG -> Done_UART_CONFIG(m, q)
    [] m[1] = SET_PIN_UART_RX -> Done_SET_PIN_UART_RX(m, q)
    [] m[1] = SET_PIN_UART_TX -> Done_SET_PIN_UART_TX(m, q)
    [] OTHER -> Done_default(m, q)

(***************************************************************************)
(* AppProtocolHandleIncoming.  The decoder works on a record               *)
(*   msg, cursor, remaining, state - rx_msg, rx_buffer_cursor,             *)
(*                                   rx_message_remaining, rx_message_state*)
(*   q     - tx_queue                                                      *)
(*   disp  - the messages handed to MessageDone so far, each with the      *)
(*           bytes received for it, the result, the hardware calls and     *)
(*           the bytes enqueued                                            *)
(*   oob   - incoming_arg_size was read outside 0..MESSAGE_TYPE_LIMIT-1    *)
(*   ret   - the value returned                                            *)
(*   left  - bytes of the chunk not looked at when it returned             *)
(***************************************************************************)
Max(a, b) == IF a >= b THEN a ELSE b

\* memcpy(((BYTE *) &rx_msg) + cursor, data, n)
Memcpy(buf, cursor, data, n) ==
  [i \in 1..Max(Len(buf), cursor + n) |->
     IF i > cursor /\ i <= cursor + n THEN data[i - cursor]
                                     ELSE RxByte(buf, i)]

\* CopyChunk with "rx_buffer_cursor += data_len" left out of the else branch
CopyChunk_NoCursorAdvance(s, data) ==
  IF Len(data) >= s.remaining
    THEN [s EXCEPT !.msg = Memcpy(s.msg, s.cursor, data, s.remaining),
                   !.cursor = s.cursor + s.remaining,
                   !.remaining = 0,
                   !.left = Len(data) - s.remaining]
    ELSE [s EXCEPT !.msg = Memcpy(s.msg, s.cursor, data, Len(data)),
                   !.remaining = s.remaining - Len(data),
                   !.left = 0]

\* lines 267-278: copy a chunk of data to rx_msg
CopyChunk(s, data) ==
  IF Len(data) >= s.remaining
    THEN [s EXCEPT !.msg = Memcpy(s.msg, s.cursor, data, s.remaining),
                   !.cursor = s.cursor + s.remaining,
                   !.remaining = 0,
                   !.left = Len(data) - s.remaining]
    ELSE [s EXCEPT !.msg = Memcpy(s.msg, s.cursor, data, Len(data)),
                   !.cursor = s.cursor + Len(data),
                   !.remaining = s.remaining - Len(data),
                   !.left = 0]

\* incoming_arg_size[rx_msg.type]; an index past the table reads whatever
\* byte lies behind it (oobval)
ReadIncomingArgSize(type, oobval) ==
  IF type < MESSAGE_TYPE_LIMIT THEN incoming_arg_size[type + 1] ELSE oobval

\* the cursor state is reset before MessageDone() runs; r is its outcome
\* Dispatched with the cursor state reset only behind a successful dispatch
Dispatched_ResetOnSuccess(s, r) ==
  [s EXCEPT !.state = IF r.ok THEN "WAIT_TYPE" ELSE "WAIT_VAR_ARGS",
            !.remaining = IF r.ok THEN 1 ELSE 0,
            !.cursor = IF r.ok THEN 0 ELSE s.cursor,
            !.q = r.q,
            !.disp = Append(s.disp,
                            [msg |-> RxBytes(s.msg, 1, s.cursor),
                             ok |-> r.ok,
                             calls |-> r.calls,
                             out |-> SubSeq(r.q, Len(s.q) + 1, Len(r.q))]),
            !.ret = r.ok]

Dispatched(s, r) ==
  [s EXCEPT !.state = "WAIT_TYPE",
            !.remaining = 1,
            !.cursor = 0,
            !.q = r.q,
            !.disp = Append(s.disp,
                            [msg |-> RxBytes(s.msg, 1, s.cursor),
                             ok |-> r.ok,
                             calls |-> r.calls,
                             out |-> SubSeq(r.q, Len(s.q) + 1, Len(r.q))]),
            !.ret = r.ok]

\* ChangeState with a break in place of each fall-through
ChangeState_NoFallThrough(s, oobval) ==
  LET argsize == ReadIncomingArgSize(s.msg[1], oobval)
      varsize == IncomingVarArgSize(s.msg)
      oob == s.oob \/ (s.state = "WAIT_TYPE" /\ s.msg[1] >= MESSAGE_TYPE_LIMIT)
  IN  IF s.state = "WAIT_TYPE"
        THEN [s EXCEPT !.state = "WAIT_ARGS", !.remaining = argsize,
                       !.oob = oob]
      ELSE IF s.state = "WAIT_ARGS"
        THEN [s EXCEPT !.state = "WAIT_VAR_ARGS", !.remaining = varsize,
                       !.oob = oob]
      ELSE Dispatched([s EXCEPT !.oob = oob], MessageDone(s.msg, s.q))

\* lines 281-302: switch (rx_message_state) with its fall-throughs.
\* WAIT_TYPE: the fixed size of the type; WAIT_ARGS: the trailer size;
\* WAIT_VAR_ARGS: reset and MessageDone().
ChangeState(s, oobval) ==
  LET argsize == ReadIncomingArgSize(s.msg[1], oobval)
      varsize == IncomingVarArgSize(s.msg)
      oob == s.oob \/ (s.state = "WAIT_TYPE" /\ s.msg[1] >= MESSAGE_TYPE_LIMIT)
  IN  IF s.state = "WAIT_TYPE" /\ argsize # 0
        THEN [s EXCEPT !.state = "WAIT_ARGS", !.remaining = argsize,
                       !.oob = oob]
      ELSE IF s.state \in {"WAIT_TYPE", "WAIT_ARGS"} /\ varsize # 0
        THEN [s EXCEPT !.state = "WAIT_VAR_ARGS", !.remaining = varsize,
                       !.oob = oob]
      ELSE Dispatched([s EXCEPT !.oob = oob], MessageDone(s.msg, s.q))

RECURSIVE HandleLoop(_, _, _)
\* AfterChange without "return FALSE": the loop goes on behind a failure
AfterChange_KeepGoing(s2, rest, oobval) == HandleLoop(s2, rest, oobval)

\* line 299: if (!MessageDone()) return FALSE; else the loop goes on
AfterChange(s2, rest, oobval) ==
  IF ~s2.ret THEN s2 ELSE HandleLoop(s2, rest, oobval)

\* lines 280-302: the loop body once the chunk is copied (s1)
AfterCopy(s1, data, oobval) ==
  IF s1.remaining # 0
    THEN HandleLoop(s1, SubSeq(data, Len(data) - s1.left + 1, Len(data)),
                    oobval)
    ELSE AfterChange(ChangeState([s1 EXCEPT !.ret = TRUE], oobval),
                     SubSeq(data, Len(data) - s1.left + 1, Len(data)),
                     oobval)

\* while (data_len > 0) { ... if (!MessageDone()) return FALSE; } return TRUE
HandleLoop(s, data, oobval) ==
  IF Len(data) = 0 THEN [s EXCEPT !.ret = TRUE, !.left = 0]
  ELSE AfterCopy(CopyChunk(s, data), data, oobval)

AppProtocolHandleIncoming(s, data, oobval) ==
  HandleLoop(s, data, oobval)

(***************************************************************************)
(* State.                                                                  *)
(***************************************************************************)
VARIABLES
  rx_msg,               \* static INCOMING_MESSAGE rx_msg, as bytes
  rx_buffer_cursor,
  rx_message_remaining,
  rx_message_state,
  tx_queue,             \* bytes resident in the outgoing queue, oldest first
  bytes_transmitted,
  tx_lock,              \* the queue's critical section is held
  va_trailer,           \* trailer a var-arg send still has to push
  adb_writes,           \* writes handed to the channel and not yet completed
  adb_span,             \* the bytes of the last ADBWrite
  adb_stream,           \* history: all bytes handed to ADBWrite since
                        \* AppProtocolInit, in order
  tx_pushed,            \* history: all bytes pushed to tx_queue since
                        \* AppProtocolInit, in order
  wire,                 \* bytes the host has sent and the device not yet read
  dispatched,           \* history: messages dispatched since AppProtocolInit
  table_oob,            \* history: a size table was read out of range
  fed,                  \* history: bytes fed since AppProtocolInit
  last,                 \* history: the last operation and what it met
  nsent, nsends         \* counters the bounds apply to

rx == <<rx_msg, rx_buffer_cursor, rx_message_remaining, rx_message_state>>
tx == <<tx_queue, bytes_transmitted, tx_lock, va_trailer, tx_pushed>>
adb == <<adb_writes, adb_span, adb_stream>>
hist == <<dispatched, table_oob, fed>>
vars == <<rx, tx, adb, wire, hist, last, nsent, nsends>>

\* the hardware calls made since AppProtocolInit, in order
RECURSIVE CallsOf(_)
CallsOf(disp) ==
  IF disp = <<>> THEN <<>> ELSE CallsOf(SubSeq(disp, 1, Len(disp) - 1))
                                \o disp[Len(disp)].calls

Last(op, ret, left, mid, inflight) ==
  [op |-> op, ret |-> ret, left |-> left, mid |-> mid, inflight |-> inflight]

(***************************************************************************)
(* Messages the host sends.                                                *)
(***************************************************************************)
ValidMsgs ==
  { <<HARD_RESET>> \o ToLE(IOIO_MAGIC, 4),
    <<SOFT_RESET>>,
    <<SET_PIN_DIGITAL_OUT, 3, 1, 0>>,
    <<SET_DIGITAL_OUT_LEVEL, 3, 1>>,
    <<SET_PIN_DIGITAL_IN, 3, 2>>,
    <<SET_CHANGE_NOTIFY, 5, 1>>,
    <<SET_CHANGE_NOTIFY, 5, 0>>,
    <<SET_PIN_PWM, 3, 8>>,
    <<SET_PIN_PWM, 48, 15>>,
    <<SET_PWM_DUTY_CYCLE, 8, 44, 1, 3>>,
    <<SET_PWM_PERIOD, 0, 44, 1, 1>>,
    <<SET_PIN_ANALOG_IN, 48>>,
    <<UART_DATA, 0, 0, 97>>,
    <<UART_DATA, 3, 1, 97, 98>>,
    <<UART_DATA, 0, 2, 97, 98, 99>>,
    <<UART_CONFIG, 3, 44, 1, 1, 0, 2>>,
    <<SET_PIN_UART_RX, 3, 1, 1>>,
    <<SET_PIN_UART_TX, 48, 3, 0>> }

\* complete messages with a field out of range, or of a type without handler
InvalidMsgs ==
  { <<HARD_RESET, 73, 79, 73, 78>>,
    <<SET_PIN_DIGITAL_OUT, 49, 1, 0>>,
    <<SET_DIGITAL_OUT_LEVEL, 49, 1>>,
    <<SET_PIN_DIGITAL_IN, 49, 0>>,
    <<SET_PIN_DIGITAL_IN, 3, 3>>,
    <<SET_CHANGE_NOTIFY, 49, 1>>,
    <<SET_PIN_PWM, 255, 2>>,
    <<SET_PIN_PWM, 3, 9>>,
    <<SET_PWM_DUTY_CYCLE, 9, 44, 1, 3>>,
    <<SET_PWM_DUTY_CYCLE, 15, 44, 1, 3>>,
    <<SET_PWM_PERIOD, 9, 44, 1, 1>>,
    <<SET_PIN_ANALOG_IN, 49>>,
    <<UART_DATA, 4, 0, 97>>,
    <<UART_CONFIG, 4, 44, 1, 1, 0, 0>>,
    <<UART_CONFIG, 3, 44, 1, 1, 0, 3>>,
    <<SET_PIN_UART_RX, 49, 1, 1>>,
    <<SET_PIN_UART_RX, 3, 4, 1>>,
    <<SET_PIN_UART_TX, 49, 1, 1>>,
    <<SET_PIN_UART_TX, 3, 4, 1>>,
    <<REGISTER_PERIODIC_DIGITAL_SAMPLING, 3, 1>>,
    <<RESERVED>> }

\* a type byte past the tables, and a UART_DATA header announcing 256 bytes
OddMsgs == { <<MESSAGE_TYPE_LIMIT>>, <<UART_DATA, 0, 255>> }

Msgs == ValidMsgs \cup InvalidMsgs \cup OddMsgs

\* what the host sends back to back, to be cut into chunks anywhere
FragMsgs ==
  { <<SOFT_RESET>>,
    <<SET_PIN_ANALOG_IN, 48>>,
    <<SET_PIN_ANALOG_IN, 49>>,
    <<SET_CHANGE_NOTIFY, 5, 1>>,
    <<SET_PIN_DIGITAL_OUT, 3, 1, 0>>,
    <<UART_DATA, 0, 0, 97>>,
    <<UART_DATA, 3, 1, 97, 98>>,
    <<SET_PIN_PWM, 3, 9>> }

\* what the host sends while the outgoing side is exercised too
CoreMsgs ==
  { <<SOFT_RESET>>, <<SET_CHANGE_NOTIFY, 5, 1>>, <<SET_PIN_ANALOG_IN, 49>>,
    <<UART_DATA, 0, 0, 97>> }

\* reports other modules send with AppProtocolSendMessage
ReportMsgs == { <<REPORT_DIGITAL_IN_STATUS, 5, 1>> }

\* header and data other modules send with AppProtocolSendMessageWithVarArg
VarArgData == { <<7>>, <<7, 8>> }
VarArgSends ==
  { [msg |-> <<UART_DATA, 0, Len(d) - 1>>, data |-> d] : d \in VarArgData }

(***************************************************************************)
(* AppProtocolInit.                                                        *)
(***************************************************************************)
\* the ESTABLISH_CONNECTION message of lines 97-103
EstablishConnectionMsg ==
  <<ESTABLISH_CONNECTION>> \o ToLE(IOIO_MAGIC, 4) \o ToLE(0, 3) \o ToLE(1, 3)
    \o ToLE(FIRMWARE_ID, 3)

\* InitQueue without ByteQueueClear
InitQueue_NoClear(q) == AppProtocolSendMessage(q, EstablishConnectionMsg)

\* tx_queue after ByteQueueClear and AppProtocolSendMessage(&msg)
InitQueue(q) == AppProtocolSendMessage(ByteQueueClear(q), EstablishConnectionMsg)

\* the decoder record of the state the variables are in
Decoder ==
  [msg |-> rx_msg, cursor |-> rx_buffer_cursor,
   remaining |-> rx_message_remaining, state |-> rx_message_state,
   q |-> tx_queue, disp |-> dispatched, oob |-> table_oob,
   ret |-> TRUE, left |-> 0]

\* InitProtocol without "bytes_transmitted = 0"
InitProtocol_KeepInFlight ==
  /\ bytes_transmitted' = bytes_transmitted
  /\ rx_buffer_cursor' = 0
  /\ rx_message_remaining' = 1
  /\ rx_message_state' = "WAIT_TYPE"
  /\ tx_queue' = InitQueue(tx_queue)

InitProtocol ==
  /\ bytes_transmitted' = 0
  /\ rx_buffer_cursor' = 0
  /\ rx_message_remaining' = 1
  /\ rx_message_state' = "WAIT_TYPE"
  /\ tx_queue' = InitQueue(tx_queue)

Init ==
  /\ rx_msg = <<>>
  /\ bytes_transmitted = 0
  /\ rx_buffer_cursor = 0
  /\ rx_message_remaining = 1
  /\ rx_message_state = "WAIT_TYPE"
  /\ tx_queue = InitQueue(<<>>)
  /\ tx_lock = FALSE
  /\ va_trailer = <<>>
  /\ adb_writes = 0
  /\ adb_span = <<>>
  /\ adb_stream = <<>>
  /\ tx_pushed = InitQueue(<<>>)
  /\ wire = <<>>
  /\ dispatched = <<>>
  /\ table_oob = FALSE
  /\ fed = <<>>
  /\ last = Last("Init", TRUE, 0, FALSE, FALSE)
  /\ nsent = 0
  /\ nsends = 0

\* void AppProtocolInit(h), called again when the channel is opened anew
AppProtocolInit ==
  /\ ~tx_lock
  /\ InitProtocol
  /\ dispatched' = <<>>
  /\ table_oob' = FALSE
  /\ fed' = <<>>
  /\ last' = Last("Init", TRUE, 0, rx_buffer_cursor # 0, bytes_transmitted # 0)
  /\ adb_stream' = <<>>
  /\ tx_pushed' = tx_queue'
  /\ UNCHANGED <<rx_msg, tx_lock, va_trailer, adb_writes, adb_span, wire,
                 nsent, nsends>>

(***************************************************************************)
(* The host and the receive path.                                          *)
(***************************************************************************)
HostSendFrom(S, max) ==
  \E m \in S :
    /\ nsent + Len(m) <= max
    /\ nsent' = nsent + Len(m)
    /\ wire' = wire \o m
    /\ UNCHANGED <<rx, tx, adb, hist, last, nsends>>

\* any message of FragMsgs, behind whatever is on the wire
HostSend == HostSendFrom(FragMsgs, MaxStream)

\* any message at all, once the device has read the one before
HostSendOne ==
  /\ wire = <<>>
  /\ Len(dispatched) < MaxDispatched
  /\ HostSendFrom(Msgs, MaxDispatch)

HostSendCore == HostSendFrom(CoreMsgs, MaxCore)

HostSendLive == HostSendFrom(CoreMsgs, MaxLive)

\* the channel hands the next n bytes to AppProtocolHandleIncoming
HandleIncoming ==
  /\ ~tx_lock
  /\ \E n \in 1..Len(wire), oobval \in 0..MaxOob :
       \E r \in {AppProtocolHandleIncoming(Decoder, SubSeq(wire, 1, n),
                                           oobval)} :
           /\ rx_msg' = r.msg
           /\ rx_buffer_cursor' = r.cursor
           /\ rx_message_remaining' = r.remaining
           /\ rx_message_state' = r.state
           /\ tx_queue' = r.q
           /\ tx_pushed' = tx_pushed \o SubSeq(r.q, Len(tx_queue) + 1,
                                                Len(r.q))
           /\ dispatched' = r.disp
           /\ table_oob' = r.oob
           /\ fed' = fed \o SubSeq(wire, 1, n)
           /\ last' = Last("HandleIncoming", r.ret, r.left,
                           rx_buffer_cursor # 0, bytes_transmitted # 0)
           /\ wire' = SubSeq(wire, n + 1, Len(wire))
  /\ UNCHANGED <<bytes_transmitted, tx_lock, va_trailer, adb,
                 nsent, nsends>>

(***************************************************************************)
(* Other producers of the outgoing queue.                                  *)
(***************************************************************************)
\* SendMessage without ByteQueueLock: it runs inside another producer's
\* critical section too
SendMessage_NoLock ==
  /\ nsends < MaxSends
  /\ nsends' = nsends + 1
  /\ \E m \in ReportMsgs :
       /\ tx_queue' = AppProtocolSendMessage(tx_queue, m)
       /\ tx_pushed' = AppProtocolSendMessage(tx_pushed, m)
  /\ last' = Last("SendMessage", TRUE, 0, rx_buffer_cursor # 0,
                  bytes_transmitted # 0)
  /\ UNCHANGED <<rx, bytes_transmitted, tx_lock, va_trailer, adb, wire,
                 hist, nsent>>

\* a hardware event reports with AppProtocolSendMessage (lines 107-112)
SendMessage ==
  /\ ~tx_lock
  /\ nsends < MaxSends
  /\ nsends' = nsends + 1
  /\ \E m \in ReportMsgs :
       /\ tx_queue' = AppProtocolSendMessage(tx_queue, m)
       /\ tx_pushed' = AppProtocolSendMessage(tx_pushed, m)
  /\ last' = Last("SendMessage", TRUE, 0, rx_buffer_cursor # 0,
                  bytes_transmitted # 0)
  /\ UNCHANGED <<rx, bytes_transmitted, tx_lock, va_trailer, adb, wire,
                 hist, nsent>>

\* AppProtocolSendMessageWithVarArg, lines 115-117: lock, push the message
SendMessageWithVarArgHeader ==
  /\ ~tx_lock
  /\ nsends < MaxSends
  /\ \E v \in VarArgSends :
       /\ tx_queue' = ByteQueuePushBuffer(tx_queue, v.msg,
                                          OutgoingMessageLength(v.msg))
       /\ tx_pushed' = ByteQueuePushBuffer(tx_pushed, v.msg,
                                           OutgoingMessageLength(v.msg))
       /\ va_trailer' = v.data
  /\ tx_lock' = TRUE
  /\ last' = Last("SendMessageWithVarArgHeader", TRUE, 0,
                  rx_buffer_cursor # 0, bytes_transmitted # 0)
  /\ UNCHANGED <<rx, bytes_transmitted, adb, wire, hist, nsent, nsends>>

\* AppProtocolSendMessageWithVarArg, lines 118-119: push the data, unlock
SendMessageWithVarArgData ==
  /\ tx_lock
  /\ tx_queue' = ByteQueuePushBuffer(tx_queue, va_trailer, Len(va_trailer))
  /\ tx_pushed' = ByteQueuePushBuffer(tx_pushed, va_trailer, Len(va_trailer))
  /\ va_trailer' = <<>>
  /\ tx_lock' = FALSE
  /\ nsends' = nsends + 1
  /\ last' = Last("SendMessageWithVarArgData", TRUE, 0,
                  rx_buffer_cursor # 0, bytes_transmitted # 0)
  /\ UNCHANGED <<rx, bytes_transmitted, adb, wire, hist, nsent>>

(***************************************************************************)
(* The transmit pump and the channel.                                      *)
(***************************************************************************)
ADBChannelReady == adb_writes = 0

\* AppProtocolTasks without "if (ADBChannelReady(h))"
AppProtocolTasks_NoReadyCheck ==
  /\ ~tx_lock
  /\ LET q1 == IF bytes_transmitted # 0
                 THEN ByteQueuePull(tx_queue, bytes_transmitted)
                 ELSE tx_queue
         data == ByteQueuePeek(q1)
     IN  /\ tx_queue' = q1
         /\ IF Len(data) > 0
              THEN /\ adb_writes' = adb_writes + 1
                   /\ adb_span' = data
                   /\ adb_stream' = adb_stream \o data
                   /\ bytes_transmitted' = Len(data)
              ELSE /\ bytes_transmitted' = 0
                   /\ UNCHANGED adb
  /\ last' = Last("Tasks", ADBChannelReady, 0, rx_buffer_cursor # 0,
                  bytes_transmitted # 0)
  /\ UNCHANGED <<rx, tx_lock, va_trailer, tx_pushed, wire, hist, nsent,
                 nsends>>

\* AppProtocolTasks with the pull done ahead of "if (ADBChannelReady(h))"
AppProtocolTasks_PullFirst ==
  /\ ~tx_lock
  /\ LET q1 == IF bytes_transmitted # 0
                 THEN ByteQueuePull(tx_queue, bytes_transmitted)
                 ELSE tx_queue
         data == ByteQueuePeek(q1)
     IN  /\ tx_queue' = q1
         /\ IF ADBChannelReady /\ Len(data) > 0
              THEN /\ adb_writes' = adb_writes + 1
                   /\ adb_span' = data
                   /\ adb_stream' = adb_stream \o data
                   /\ bytes_transmitted' = Len(data)
              ELSE /\ bytes_transmitted' = 0
                   /\ UNCHANGED adb
  /\ last' = Last("Tasks", ADBChannelReady, 0, rx_buffer_cursor # 0,
                  bytes_transmitted # 0)
  /\ UNCHANGED <<rx, tx_lock, va_trailer, tx_pushed, wire, hist, nsent,
                 nsends>>

\* AppProtocolTasks without ByteQueuePull: the confirmed bytes stay queued
AppProtocolTasks_NoPull ==
  /\ ~tx_lock
  /\ IF ADBChannelReady
       THEN LET data == ByteQueuePeek(tx_queue)
            IN  /\ tx_queue' = tx_queue
                /\ IF Len(data) > 0
                     THEN /\ adb_writes' = adb_writes + 1
                          /\ adb_span' = data
                          /\ adb_stream' = adb_stream \o data
                          /\ bytes_transmitted' = Len(data)
                     ELSE /\ bytes_transmitted' = 0
                          /\ UNCHANGED adb
       ELSE UNCHANGED <<tx_queue, bytes_transmitted, adb>>
  /\ last' = Last("Tasks", ADBChannelReady, 0, rx_buffer_cursor # 0,
                  bytes_transmitted # 0)
  /\ UNCHANGED <<rx, tx_lock, va_trailer, tx_pushed, wire, hist, nsent,
                 nsends>>

\* AppProtocolTasks without "bytes_transmitted = 0" behind the pull
AppProtocolTasks_NoZero ==
  /\ ~tx_lock
  /\ IF ADBChannelReady
       THEN LET q1 == IF bytes_transmitted # 0
                        THEN ByteQueuePull(tx_queue, bytes_transmitted)
                        ELSE tx_queue
                data == ByteQueuePeek(q1)
            IN  /\ tx_queue' = q1
                /\ IF Len(data) > 0
                     THEN /\ adb_writes' = adb_writes + 1
                          /\ adb_span' = data
                          /\ adb_stream' = adb_stream \o data
                          /\ bytes_transmitted' = Len(data)
                     ELSE /\ bytes_transmitted' = bytes_transmitted
                          /\ UNCHANGED adb
       ELSE UNCHANGED <<tx_queue, bytes_transmitted, adb>>
  /\ last' = Last("Tasks", ADBChannelReady, 0, rx_buffer_cursor # 0,
                  bytes_transmitted # 0)
  /\ UNCHANGED <<rx, tx_lock, va_trailer, tx_pushed, wire, hist, nsent,
                 nsends>>

\* void AppProtocolTasks(h), lines 124-139
AppProtocolTasks ==
  /\ ~tx_lock
  /\ IF ADBChannelReady
       THEN LET q1 == IF bytes_transmitted # 0
                        THEN ByteQueuePull(tx_queue, bytes_transmitted)
                        ELSE tx_queue
                data == ByteQueuePeek(q1)
            IN  /\ tx_queue' = q1
                /\ IF Len(data) > 0
                     THEN /\ adb_writes' = adb_writes + 1
                          /\ adb_span' = data
                          /\ adb_stream' = adb_stream \o data
                          /\ bytes_transmitted' = Len(data)
                     ELSE /\ bytes_transmitted' = 0
                          /\ UNCHANGED adb
       ELSE UNCHANGED <<tx_queue, bytes_transmitted, adb>>
  /\ last' = Last("Tasks", ADBChannelReady, 0, rx_buffer_cursor # 0,
                  bytes_transmitted # 0)
  /\ UNCHANGED <<rx, tx_lock, va_trailer, tx_pushed, wire, hist, nsent,
                 nsends>>

\* the channel has taken the bytes of the outstanding write
ADBWriteDone ==
  /\ adb_writes > 0
  /\ adb_writes' = adb_writes - 1
  /\ UNCHANGED <<rx, tx, adb_span, adb_stream, wire, hist, last, nsent,
                 nsends>>

(***************************************************************************)
(* Specifications.                                                         *)
(***************************************************************************)
Next ==
  \/ HostSendCore
  \/ HandleIncoming
  \/ SendMessage
  \/ SendMessageWithVarArgHeader
  \/ SendMessageWithVarArgData
  \/ AppProtocolTasks
  \/ ADBWriteDone
  \/ AppProtocolInit

Spec == Init /\ [][Next]_vars

\* the whole module again, the host sending less
NextLive ==
  \/ HostSendLive
  \/ HandleIncoming
  \/ SendMessage
  \/ SendMessageWithVarArgHeader
  \/ SendMessageWithVarArgData
  \/ AppProtocolTasks
  \/ ADBWriteDone
  \/ AppProtocolInit

\* the main loop calls AppProtocolTasks over and over, the channel completes
\* every write it was handed, and a var-arg send that holds the lock runs on
\* to its unlock
SpecLive ==
  /\ Init
  /\ [][NextLive]_vars
  /\ WF_vars(AppProtocolTasks)
  /\ WF_vars(ADBWriteDone)
  /\ WF_vars(SendMessageWithVarArgData)

\* the receive path alone: messages back to back, cut into any chunks
NextDecode ==
  \/ HostSend
  \/ HandleIncoming

SpecDecode == Init /\ [][NextDecode]_vars

\* the receive path alone: every message of the catalogue, one at a time
NextDispatch ==
  \/ HostSendOne
  \/ HandleIncoming

SpecDispatch == Init /\ [][NextDispatch]_vars

(***************************************************************************)
(* Properties.                                                             *)
(***************************************************************************)
\* the decoder right after AppProtocolInit, nothing received yet
InitDecoder ==
  [msg |-> <<>>, cursor |-> 0, remaining |-> 1, state |-> "WAIT_TYPE",
   q |-> InitQueue(<<>>), disp |-> <<>>, oob |-> FALSE, ret |-> TRUE,
   left |-> 0]

\* bytes that are valid messages back to back, none cut short
RECURSIVE IsValidStream(_)
IsValidStream(bytes) ==
  \/ bytes = <<>>
  \/ \E m \in ValidMsgs :
       /\ Len(m) <= Len(bytes)
       /\ SubSeq(bytes, 1, Len(m)) = m
       /\ IsValidStream(SubSeq(bytes, Len(m) + 1, Len(bytes)))

\* the argument struct of an incoming type, by type + 1
ArgStruct ==
  << "HARD_RESET_ARGS", "SOFT_RESET_ARGS", "SET_PIN_DIGITAL_OUT_ARGS",
     "SET_DIGITAL_OUT_LEVEL_ARGS", "SET_PIN_DIGITAL_IN_ARGS",
     "SET_CHANGE_NOTIFY_ARGS", "REGISTER_PERIODIC_DIGITAL_SAMPLING_ARGS",
     "RESERVED_ARGS", "SET_PIN_PWM_ARGS", "SET_PWM_DUTY_CYCLE_ARGS",
     "SET_PWM_PERIOD_ARGS", "SET_PIN_ANALOG_IN_ARGS", "UART_DATA_ARGS",
     "UART_CONFIG_ARGS", "SET_PIN_UART_RX_ARGS", "SET_PIN_UART_TX_ARGS" >>

HasField(m, field) ==
  /\ m[1] < MESSAGE_TYPE_LIMIT
  /\ ArgStruct[m[1] + 1] \in DOMAIN Layout
  /\ field \in DOMAIN Layout[ArgStruct[m[1] + 1]]

Arg(m, field) == Field(m, ArgStruct[m[1] + 1], field)

\* a message of a declared type one of whose checked fields is out of range
InvalidField(m) ==
  \/ m[1] = HARD_RESET /\ SubSeq(m, 2, 5) # <<73, 79, 73, 79>>
  \/ HasField(m, "pin") /\ Arg(m, "pin") >= NUM_PINS
  \/ /\ HasField(m, "pwm_num")
     /\ Arg(m, "pwm_num") >= NUM_PWMS
     /\ ~(m[1] = SET_PIN_PWM /\ Arg(m, "pwm_num") = 15)
  \/ HasField(m, "uart_num") /\ Arg(m, "uart_num") >= NUM_UARTS
  \/ HasField(m, "pull") /\ Arg(m, "pull") >= 3
  \/ HasField(m, "parity") /\ Arg(m, "parity") >= 3

\* the dispatch records a step has added
Added(before, after) == (Len(before) + 1)..Len(after)

Failed == \E i \in 1..Len(dispatched) : ~dispatched[i].ok

C2_ValidationFirst ==
  [][\A i \in Added(dispatched, dispatched') :
       /\ InvalidField(dispatched'[i].msg) =>
            /\ dispatched'[i].calls = <<>>
            /\ dispatched'[i].out = <<>>
            /\ ~dispatched'[i].ok
            /\ i = Len(dispatched')
            /\ last'.op = "HandleIncoming"
            /\ ~last'.ret
       /\ (\E c \in 1..Len(dispatched'[i].calls) :
             dispatched'[i].calls[c][1] = "HardReset") =>
            dispatched'[i].msg = <<HARD_RESET, 73, 79, 73, 79>>]_vars

\* a message whose first check passes and whose second fails was dispatched
C2_Witness ==
  /\ last.op = "HandleIncoming"
  /\ ~last.ret
  /\ dispatched # <<>>
  /\ dispatched[Len(dispatched)].msg = <<SET_PIN_DIGITAL_IN, 3, 3>>

\* C3: a type byte past the size tables is rejected before the table is
\* indexed: no table element outside 0..MESSAGE_TYPE_LIMIT-1 is read and
\* the decoder never waits for arguments of such a type.
C3_UndeclaredTypeRejected ==
  /\ ~table_oob
  /\ rx_buffer_cursor > 0 => rx_msg[1] < MESSAGE_TYPE_LIMIT

\* C4 as claimed: once a dispatch has failed, nothing more is dispatched and
\* nothing enqueued by the receive path until AppProtocolInit runs again.
C4_NothingAfterFailure ==
  [][Failed => dispatched' = dispatched \/ last'.op = "Init"]_vars

\* C4 as the code has it: a failed dispatch is the last one of its call (the
\* bytes behind it in the chunk are dropped), the call returns FALSE and
\* leaves the decoder at (WAIT_TYPE, 1, 0), where the next call starts.
C4_FailureEndsTheCall ==
  [][/\ \A i \in Added(dispatched, dispatched') :
          ~dispatched'[i].ok =>
            /\ i = Len(dispatched')
            /\ last'.op = "HandleIncoming"
            /\ ~last'.ret
            /\ rx_message_state' = "WAIT_TYPE"
            /\ rx_message_remaining' = 1
            /\ rx_buffer_cursor' = 0
     /\ (last'.op = "HandleIncoming" /\ last' # last /\ ~last'.ret) =>
          /\ Len(dispatched') > Len(dispatched)
          /\ ~dispatched'[Len(dispatched')].ok]_vars

\* a call failed with bytes of its chunk still unread
C4_Witness ==
  /\ last.op = "HandleIncoming"
  /\ ~last.ret
  /\ last.left > 0

\* C6: the pump keeps at most one write outstanding.  A write is issued
\* only while none is outstanding, at most one per call, and it carries the
\* head of the queue; AppProtocolTasks removes bytes only when the channel is
\* ready again, and then exactly the bytes of the write issued before.
C6_OneWriteOutstanding ==
  /\ [](adb_writes <= 1)
  /\ [][/\ adb_writes' > adb_writes =>
             /\ adb_writes = 0
             /\ adb_writes' = 1
             /\ adb_span' = tx_queue'
             /\ bytes_transmitted' = Len(adb_span')
        /\ (last'.op = "Tasks" /\ tx_queue' # tx_queue) =>
             /\ adb_writes = 0
             /\ bytes_transmitted = Len(adb_span)
             /\ tx_queue = adb_span \o tx_queue']_vars

\* a call removed the bytes of the confirmed write and issued the next one
C6_Witness ==
  /\ last.op = "Tasks"
  /\ last.ret
  /\ last.inflight
  /\ adb_writes = 1
  /\ bytes_transmitted > 0

\* the echo types and the report each of them is followed by
EchoTypes ==
  { SOFT_RESET, SET_PIN_DIGITAL_OUT, SET_PIN_DIGITAL_IN, SET_CHANGE_NOTIFY,
    SET_PIN_ANALOG_IN, UART_CONFIG, SET_PIN_UART_RX, SET_PIN_UART_TX }

ExtraReport(m) ==
  IF m[1] = SET_CHANGE_NOTIFY /\ m[3] # 0
    THEN <<REPORT_DIGITAL_IN_STATUS, m[2], DigitalInLevel>>
  ELSE IF m[1] = UART_CONFIG
    THEN <<UART_REPORT_TX_STATUS, m[2], UartTxRemaining % 256,
           UartTxRemaining \div 256>>
  ELSE <<>>

\* C7: a valid message of an echo type enqueues its own bytes (type and
\* payload) once, ahead of the extra report of SET_CHANGE_NOTIFY and
\* UART_CONFIG, and nothing else.
C7_EchoFirst ==
  \A i \in 1..Len(dispatched) :
    (dispatched[i].msg[1] \in EchoTypes /\ ~InvalidField(dispatched[i].msg)) =>
      /\ dispatched[i].ok
      /\ dispatched[i].out = dispatched[i].msg \o ExtraReport(dispatched[i].msg)

\* an enabling SET_CHANGE_NOTIFY was dispatched: echo, then the pin report
C7_Witness ==
  \E i \in 1..Len(dispatched) :
    /\ dispatched[i].ok
    /\ dispatched[i].msg = <<SET_CHANGE_NOTIFY, 5, 1>>
    /\ dispatched[i].out = <<SET_CHANGE_NOTIFY, 5, 1,
                             REPORT_DIGITAL_IN_STATUS, 5, DigitalInLevel>>

\* C8: a var-arg send appends header and trailer as one unit.  It starts by
\* appending the header; until its trailer is appended right behind, no other
\* byte enters the queue, none leaves it and the pump hands nothing to the
\* channel.
C8_VarArgAtomic ==
  [][/\ (~tx_lock /\ tx_lock') =>
          \E v \in VarArgSends :
            /\ tx_queue' = tx_queue \o v.msg
            /\ va_trailer' = v.data
     /\ tx_lock =>
          /\ bytes_transmitted' = bytes_transmitted
          /\ adb_span' = adb_span
          /\ adb_writes' <= adb_writes
          /\ \/ tx_lock' /\ tx_queue' = tx_queue /\ va_trailer' = va_trailer
             \/ ~tx_lock' /\ tx_queue' = tx_queue \o va_trailer]_vars

\* a var-arg send completed behind bytes of a write still in flight
C8_Witness ==
  /\ last.op = "SendMessageWithVarArgData"
  /\ last.inflight
  /\ ~tx_lock
  /\ Len(tx_queue) > bytes_transmitted + 3

\* C9: a UART_DATA message with size field s is complete after exactly s + 1
\* trailer bytes, and UARTTransmit gets those s + 1 bytes in order.
C9_TrailerLength ==
  \A i \in 1..Len(dispatched) :
    (dispatched[i].msg[1] = UART_DATA /\ dispatched[i].ok) =>
      /\ Len(dispatched[i].msg) = UartDataOffset + dispatched[i].msg[3] + 1
      /\ dispatched[i].calls =
           << <<"UARTTransmit", dispatched[i].msg[2],
                SubSeq(dispatched[i].msg, UartDataOffset + 1,
                       Len(dispatched[i].msg)),
                dispatched[i].msg[3] + 1>> >>

\* C10: AppProtocolInit leaves the decoder at (WAIT_TYPE, 1, 0), no bytes
\* in flight and the queue holding the ESTABLISH_CONNECTION message alone.
C10_InitResets ==
  last.op = "Init" =>
    /\ rx_message_state = "WAIT_TYPE"
    /\ rx_message_remaining = 1
    /\ rx_buffer_cursor = 0
    /\ bytes_transmitted = 0
    /\ tx_queue = <<ESTABLISH_CONNECTION, 73, 79, 73, 79, 0, 0, 0, 1, 0, 0,
                    FIRMWARE_ID, 0, 0>>

\* AppProtocolInit ran in the middle of a message with a write in flight
C10_Witness ==
  /\ last.op = "Init"
  /\ last.mid
  /\ last.inflight
  /\ wire # <<>>

\* the bytes AppProtocolSendMessage enqueues for msg, fed to the decoder
\* right after AppProtocolInit, and the decoder they leave
Encoded(msg) == AppProtocolSendMessage(<<>>, msg)

Decoded(bytes) == AppProtocolHandleIncoming(InitDecoder, bytes, 0)

\* the decoder took bytes as one complete message, no byte short or over
OneMessage(r, bytes, ok) ==
  /\ Len(r.disp) = 1
  /\ r.disp[1].msg = bytes
  /\ r.disp[1].ok = ok
  /\ r.left = 0
  /\ r.state = "WAIT_TYPE"
  /\ r.cursor = 0
  /\ r.remaining = 1

RoundTrip(d, enc) ==
  /\ incoming_arg_size[d.msg[1] + 1] = outgoing_arg_size[d.msg[1] + 1]
  /\ Len(enc) = 1 + outgoing_arg_size[d.msg[1] + 1]
  /\ enc = d.msg
  /\ OneMessage(Decoded(enc), d.msg, d.ok)
  /\ Decoded(SubSeq(enc, 1, Len(enc) - 1)).disp = <<>>

\* C11: round trip of the echoed types.  The bytes enqueued for an outgoing
\* message of an echo type are 1 + outgoing_arg_size[type] long, the two
\* tables agree on that type, and the decoder takes those bytes as exactly
\* one complete message of the same type and field values, and not before
\* the last of them has arrived.
C11_EchoRoundTrip ==
  \A i \in 1..Len(dispatched) :
    dispatched[i].msg[1] \in EchoTypes =>
      RoundTrip(dispatched[i], Encoded(dispatched[i].msg))

\* a UART_CONFIG, the longest echoed message, was dispatched and echoed
C11_Witness ==
  \E i \in 1..Len(dispatched) :
    /\ dispatched[i].msg[1] = UART_CONFIG
    /\ dispatched[i].ok
    /\ Len(dispatched[i].out) > Len(dispatched[i].msg)

\* the types MessageDone handles without Echo(), and the call of each
SilentCall ==
  [t \in { HARD_RESET, SET_DIGITAL_OUT_LEVEL, SET_PIN_PWM,
           SET_PWM_DUTY_CYCLE, SET_PWM_PERIOD, UART_DATA } |->
     CASE t = HARD_RESET -> "HardReset"
       [] t = SET_DIGITAL_OUT_LEVEL -> "SetDigitalOutLevel"
       [] t = SET_PIN_PWM -> "SetPinPwm"
       [] t = SET_PWM_DUTY_CYCLE -> "SetPwmDutyCycle"
       [] t = SET_PWM_PERIOD -> "SetPwmPeriod"
       [] t = UART_DATA -> "UARTTransmit"]

\* C12: a valid message of a type without an echo makes its one hardware
\* call and the dispatcher enqueues no byte for it.
C12_SilentTypes ==
  \A i \in 1..Len(dispatched) :
    (dispatched[i].msg[1] \in DOMAIN SilentCall
       /\ ~InvalidField(dispatched[i].msg)) =>
      /\ dispatched[i].ok
      /\ Len(dispatched[i].calls) = 1
      /\ dispatched[i].calls[1][1] = SilentCall[dispatched[i].msg[1]]
      /\ dispatched[i].out = <<>>

\* a valid SET_DIGITAL_OUT_LEVEL was dispatched, its call made
C12_Witness ==
  \E i \in 1..Len(dispatched) :
    /\ dispatched[i].msg = <<SET_DIGITAL_OUT_LEVEL, 3, 1>>
    /\ dispatched[i].ok
    /\ dispatched[i].calls = << <<"SetDigitalOutLevel", 3, 1>> >>

\* the outgoing messages in bytes, by the length outgoing_arg_size gives
RECURSIVE OutgoingMessages(_)
OutgoingMessages(bytes) ==
  IF bytes = <<>> THEN <<>>
  ELSE IF Len(bytes) < OutgoingMessageLength(bytes) THEN << bytes >>
  ELSE << SubSeq(bytes, 1, OutgoingMessageLength(bytes)) >>
       \o OutgoingMessages(SubSeq(bytes, OutgoingMessageLength(bytes) + 1,
                                  Len(bytes)))

\* C13: a valid SET_CHANGE_NOTIFY reports the pin's digital-in status if and
\* only if cn is non-zero: with cn = 0 the echo is the only outgoing
\* message, otherwise the echo is followed by exactly one
\* REPORT_DIGITAL_IN_STATUS, for the pin of the message.
C13_ReportIffEnabling ==
  \A i \in 1..Len(dispatched) :
    (dispatched[i].msg[1] = SET_CHANGE_NOTIFY
       /\ ~InvalidField(dispatched[i].msg)) =>
      /\ dispatched[i].ok
      /\ dispatched[i].calls =
           << <<"SetChangeNotify", dispatched[i].msg[2],
                dispatched[i].msg[3]>> >>
      /\ OutgoingMessages(dispatched[i].out) =
           IF dispatched[i].msg[3] = 0
             THEN << dispatched[i].msg >>
             ELSE << dispatched[i].msg,
                     <<REPORT_DIGITAL_IN_STATUS, dispatched[i].msg[2],
                       DigitalInLevel>> >>

\* a disabling SET_CHANGE_NOTIFY was dispatched: the echo and no report
C13_Witness ==
  \E i \in 1..Len(dispatched) :
    /\ dispatched[i].msg = <<SET_CHANGE_NOTIFY, 5, 0>>
    /\ dispatched[i].ok
    /\ dispatched[i].out = <<SET_CHANGE_NOTIFY, 5, 0>>

\* the bytes of the messages dispatched behind the first n
RECURSIVE BytesDispatched(_, _)
BytesDispatched(disp, n) ==
  IF Len(disp) <= n THEN 0
  ELSE Len(disp[Len(disp)].msg)
       + BytesDispatched(SubSeq(disp, 1, Len(disp) - 1), n)

\* C14: a call that ends with the completion of a message, its dispatch
\* successful or not, returns with the decoder at (WAIT_TYPE, 1, 0); the
\* decoder is never in WAIT_ARGS or WAIT_VAR_ARGS with no byte left to wait
\* for.
C14_ResetOnCompletion ==
  /\ [](rx_message_state \in {"WAIT_ARGS", "WAIT_VAR_ARGS"}
          => rx_message_remaining >= 1 /\ rx_buffer_cursor >= 1)
  /\ [][(/\ Len(dispatched') > Len(dispatched)
         /\ rx_buffer_cursor + (Len(fed') - Len(fed)) - last'.left
              = BytesDispatched(dispatched', Len(dispatched)))
          => /\ rx_message_state' = "WAIT_TYPE"
             /\ rx_message_remaining' = 1
             /\ rx_buffer_cursor' = 0]_vars

\* a call that began inside a message dispatched it and then a message that
\* failed, and left the decoder reset
C14_Witness ==
  /\ last.op = "HandleIncoming"
  /\ last.mid
  /\ ~last.ret
  /\ Len(dispatched) >= 2
  /\ dispatched[Len(dispatched) - 1].ok
  /\ rx_message_state = "WAIT_TYPE"
  /\ rx_buffer_cursor = 0

\* C15: a complete message of a type with a size-table entry and no handler
\* (REGISTER_PERIODIC_DIGITAL_SAMPLING, RESERVED) fails dispatch once its
\* type byte and fixed argument block are in: no hardware call, nothing
\* enqueued, and the call returns failure.
C15_NoHandlerFails ==
  \A i \in 1..Len(dispatched) :
    dispatched[i].msg[1] \in {REGISTER_PERIODIC_DIGITAL_SAMPLING, RESERVED} =>
      /\ ~dispatched[i].ok
      /\ dispatched[i].calls = <<>>
      /\ dispatched[i].out = <<>>
      /\ Len(dispatched[i].msg)
           = 1 + IF dispatched[i].msg[1] = RESERVED
                   THEN SizeOf.RESERVED_ARGS
                   ELSE SizeOf.REGISTER_PERIODIC_DIGITAL_SAMPLING_ARGS
      /\ (i = Len(dispatched) /\ rx_buffer_cursor = 0) => ~last.ret

\* a REGISTER_PERIODIC_DIGITAL_SAMPLING message was decoded whole and failed
C15_Witness ==
  /\ dispatched # <<>>
  /\ dispatched[Len(dispatched)].msg
       = <<REGISTER_PERIODIC_DIGITAL_SAMPLING, 3, 1>>
  /\ last.op = "HandleIncoming"
  /\ ~last.ret

IsPrefix(p, s) == Len(p) <= Len(s) /\ SubSeq(s, 1, Len(p)) = p

\* C16: while the channel is not ready AppProtocolTasks issues no write and
\* leaves tx_queue and bytes_transmitted as they are, and what is enqueued
\* meanwhile goes behind the bytes already resident, the span in flight
\* first.
C16_NotReadyNoEffect ==
  [][adb_writes # 0 =>
       /\ (last'.op = "Tasks" /\ last' # last) =>
            /\ ~last'.ret
            /\ UNCHANGED <<tx_queue, bytes_transmitted, adb_writes, adb_span>>
       /\ last'.op # "Init" =>
            /\ IsPrefix(tx_queue, tx_queue')
            /\ bytes_transmitted' = bytes_transmitted
            /\ adb_writes' <= adb_writes]_vars

\* AppProtocolTasks ran with the channel busy and bytes waiting behind the
\* span in flight
C16_Witness ==
  /\ last.op = "Tasks"
  /\ ~last.ret
  /\ adb_writes # 0
  /\ bytes_transmitted > 0
  /\ Len(tx_queue) > bytes_transmitted
  /\ IsPrefix(adb_span, tx_queue)

\* C17: the bytes handed to ADBWrite since AppProtocolInit, span after span,
\* are a prefix of the bytes enqueued since then, in enqueue order: all
\* but the span in flight have left the queue, and the queue holds the rest
\* of what was enqueued.
C17_StreamIntegrity ==
  /\ IsPrefix(adb_stream, tx_pushed)
  /\ bytes_transmitted <= Len(adb_stream)
  /\ tx_pushed = SubSeq(adb_stream, 1, Len(adb_stream) - bytes_transmitted)
                   \o tx_queue

\* a second write went out carrying bytes that were enqueued while the
\* first was in flight
C17_Witness ==
  /\ last.op = "Tasks"
  /\ last.inflight
  /\ adb_writes = 1
  /\ adb_span # <<>>
  /\ Len(adb_stream) > Len(adb_span)
  /\ Len(adb_stream) > Len(EstablishConnectionMsg)
  /\ adb_stream = tx_pushed

\* C18: bytes_transmitted never exceeds the bytes resident in tx_queue, and
\* whenever bytes are in flight they are the head of the queue, equal to the
\* span of the last ADBWrite; so the ByteQueuePull of AppProtocolTasks
\* never asks for more than the queue holds, also when AppProtocolInit has
\* run with a write in flight.
C18_InFlightBound ==
  /\ 0 <= bytes_transmitted
  /\ bytes_transmitted <= Len(tx_queue)
  /\ bytes_transmitted > 0 =>
       /\ Len(adb_span) = bytes_transmitted
       /\ SubSeq(tx_queue, 1, bytes_transmitted) = adb_span

\* AppProtocolInit ran with a write of more than the queue now holds in
\* flight
C18_Witness ==
  /\ last.op = "Init"
  /\ last.inflight
  /\ adb_writes = 1
  /\ Len(adb_span) > Len(tx_queue)
  /\ bytes_transmitted = 0

\* C19: with type bytes of declared types only, between calls the decoder
\* has rx_buffer_cursor >= 0, rx_message_remaining >= 1 and
\* rx_buffer_cursor + rx_message_remaining within 1 + incoming_arg_size[type]
\* + 256, for every value of the UART_DATA size field; no byte is written
\* beyond the end of rx_msg.
C19_DecoderBufferBound ==
  ~table_oob =>
    /\ rx_buffer_cursor >= 0
    /\ rx_message_remaining >= 1
    /\ rx_buffer_cursor = 0 => rx_message_remaining = 1
    /\ rx_buffer_cursor > 0 =>
         rx_buffer_cursor + rx_message_remaining
           <= 1 + incoming_arg_size[rx_msg[1] + 1] + VarArgBufSize
    /\ \A sz \in Byte :
         IncomingVarArgSize(<<UART_DATA, 0, sz>>) <= VarArgBufSize
    /\ rx_buffer_cursor + rx_message_remaining <= RxMsgSize
    /\ Len(rx_msg) <= RxMsgSize

\* the decoder is inside the trailer of a UART_DATA message, a byte to come
C19_Witness ==
  /\ rx_message_state = "WAIT_VAR_ARGS"
  /\ rx_msg[1] = UART_DATA
  /\ rx_buffer_cursor = UartDataOffset + 1
  /\ rx_message_remaining = 1
  /\ ~table_oob

\* a step that enqueues: a push to tx_queue, or AppProtocolInit
Enqueues == tx_pushed' # tx_pushed \/ AppProtocolInit

\* C20: drain.  With AppProtocolTasks called again and again and the channel
\* completing its writes, once the producers have stopped enqueuing every
\* byte enqueued is handed to ADBWrite and removed: tx_queue becomes empty
\* and bytes_transmitted returns to 0, everything enqueued having been sent.
C20_DrainLiveness ==
  (<>[][~Enqueues]_vars) =>
     <>[](tx_queue = <<>> /\ bytes_transmitted = 0 /\ adb_stream = tx_pushed)

\* the queue has drained behind messages that were enqueued and sent while
\* others were in flight
C20_Witness ==
  /\ tx_queue = <<>>
  /\ bytes_transmitted = 0
  /\ last.op = "Tasks"
  /\ adb_stream = tx_pushed
  /\ Len(adb_stream) > Len(adb_span)
  /\ Len(tx_pushed) > Len(EstablishConnectionMsg)

====
